---- MODULE Spec2Model ----
(***************************************************************************)
(* Model of BinarySearchTree<T> (src/LaboBinaryTree/main.cpp) with T = int. *)
(*                                                                         *)
(* The heap is a finite array of node blocks.  A pointer is NULL, the      *)
(* address of a block (1..MaxNodes) or WILD, a non-null bit pattern that    *)
(* is the address of no block.  A block that was deleted stays in the      *)
(* array with live = FALSE: a pointer to it is a dangling pointer, and     *)
(* what a read through it returns is whatever the allocator left in the    *)
(* block (see Scribbles).                                                  *)
(***************************************************************************)
EXTENDS Integers, Sequences, FiniteSets, TLC

\* ------------------------------------------------------------- bounds
MaxKey == 4        \* keys are 1..MaxKey
MaxNodes == 4      \* blocks the allocator can hand out
SizeBits == 3      \* width of size_t in the model: arithmetic is mod 2^SizeBits
StackSlack == 2    \* call-stack frames available beyond MaxNodes
MaxRemovals == 2   \* deleteElement / deleteMin calls in one run
MaxCopies == 2     \* copy constructions / copy assignments in one run

Keys == 1..MaxKey
NodeIds == 1..MaxNodes
SizeMod == 2^SizeBits
StackDepth == MaxNodes + StackSlack

\* ------------------------------------------------------------ pointers
NULL == 0
WILD == -1
Ptr == NodeIds \cup {NULL, WILD}

\* struct Node: key, right, left, nbElements; live is the allocator's view.
Node(k) == [key |-> k, right |-> NULL, left |-> NULL, nbElements |-> 1, live |-> TRUE]
Blank == [key |-> 0, right |-> NULL, left |-> NULL, nbElements |-> 0, live |-> FALSE]

\* size_t arithmetic
Inc(x) == (x + 1) % SizeMod
Dec(x) == (x + SizeMod - 1) % SizeMod
NotFound == SizeMod - 1          \* size_t(-1)

\* root is the _root member of the tree the calls are made on, other the
\* _root member of a second tree object (NULL while there is none, or while
\* it is empty), heap the memory both trees' nodes live in.
VARIABLES root, other, heap, status, ret, removals, copies
vars == <<root, other, heap, status, ret, removals, copies>>

\* The machine state the operations work on.  uaf records whether the call
\* under way has accessed a member of a node after deleting it, at the
\* places where the code does so right after its delete statement.
Mem == [root |-> root, other |-> other, heap |-> heap, st |-> status, uaf |-> FALSE]

\* The two ways a call fails to return.  "crashed": it dereferenced what is
\* not the address of a node, or the build trapped.  "hung": its walk never
\* reaches an end, the loop spinning for ever or the recursion going down
\* until the call stack is used up.
Crash(m) == [m EXCEPT !.st = "crashed"]
Hang(m) == [m EXCEPT !.st = "hung"]

\* A dereference p->... is defined only for the address of a block.
CanDeref(p) == p \in NodeIds

\* A Node*& : the root member, or the left / right member of a block.
RootSlot == <<NULL, "root">>
Get(m, s) == IF s[2] = "root" THEN m.root ELSE m.heap[s[1]][s[2]]
Set(m, s, v) ==
  IF s[2] = "root" THEN [m EXCEPT !.root = v]
  ELSE IF s[2] = "left" THEN [m EXCEPT !.heap[s[1]].left = v]
  ELSE [m EXCEPT !.heap[s[1]].right = v]

\* ------------------------------------------------------------ allocator
\* Blocks a chain of left / right members starting at a tree's root can lead
\* to, deleted blocks included.
RECURSIVE ReachFrom(_, _, _)
ReachFrom(h, seen, front) ==
  IF front = {} THEN seen
  ELSE LET nxt == UNION {{h[i].left, h[i].right} \cap NodeIds : i \in front}
       IN ReachFrom(h, seen \cup front, nxt \ (seen \cup front))
Reach(m) == ReachFrom(m.heap, {}, {m.root, m.other} \cap NodeIds)

\* Deleted blocks nothing can lead to: their contents cannot be read again.
Unreferenced(m) == {i \in NodeIds : ~m.heap[i].live /\ i \notin Reach(m)}

\* operator new for a node of key k: the address of any block that is not
\* live.  Blocks nothing refers to are interchangeable and one stands for
\* them all (block k when it is among them, the lowest otherwise); a deleted
\* block that a dangling pointer still refers to can be handed out again.
AllocChoices(m, k) ==
  LET dangling == {i \in Reach(m) : ~m.heap[i].live}
      unref == Unreferenced(m)
  IN dangling \cup (IF unref = {} THEN {}
                    ELSE IF k \in unref THEN {k}
                    ELSE {CHOOSE i \in unref : \A j \in unref : i <= j})

\* What the allocator may leave in a block it takes back: the members as
\* they were, or all of them overwritten (free-list links, a fill pattern).
\* c.abort: whether the allocator catches the delete of a block that is not live.
ScribbleChoices == [fill : BOOLEAN, abort : BOOLEAN]
Scribble(n, c) ==
  IF c.fill
  THEN [key |-> 0, right |-> WILD, left |-> WILD, nbElements |-> NotFound, live |-> FALSE]
  ELSE [n EXCEPT !.live = FALSE]

\* delete p.  delete nullptr does nothing; deleting what is no live block
\* (a wild pointer, a second delete) is caught by the allocator (abort) or
\* goes unnoticed, as c.abort says.
Delete(m, p, c) ==
  IF p = NULL THEN m
  ELSE IF p = WILD THEN Crash(m)
  ELSE IF ~m.heap[p].live /\ c.abort THEN Crash(m)
  ELSE [m EXCEPT !.heap[p] = Scribble(m.heap[p], c)]

\* An access to a member of *p: noted when p is a block already deleted.
Touch(m, p) ==
  IF p \in NodeIds /\ ~m.heap[p].live THEN [m EXCEPT !.uaf = TRUE] ELSE m

\* The state an operation leaves: the contents of deleted blocks that nothing
\* refers to are not part of it.
Canon(m) ==
  LET u == Unreferenced(m)
  IN [m EXCEPT !.heap = [i \in NodeIds |-> IF i \in u THEN Blank ELSE m.heap[i]]]

\* --------------------------------------------------------------- insert
\* static bool insert(Node*& r, const_reference key).  fresh is the block
\* operator new returns (NULL: none left, the call is outside the model's
\* bounds); d is the call stack left.
RECURSIVE insertRec(_, _, _, _, _)
insertRec(m, r, key, fresh, d) ==
  LET p == Get(m, r) IN
  IF d = 0 THEN [m |-> Hang(m), ret |-> FALSE, oom |-> FALSE]
  ELSE IF p = NULL THEN
    IF fresh = NULL THEN [m |-> m, ret |-> FALSE, oom |-> TRUE]
    ELSE [m |-> Set([m EXCEPT !.heap[fresh] = Node(key)], r, fresh),
          ret |-> TRUE, oom |-> FALSE]
  ELSE IF ~CanDeref(p) THEN [m |-> Crash(m), ret |-> FALSE, oom |-> FALSE]
  ELSE IF key < m.heap[p].key \/ key > m.heap[p].key THEN
    LET sub == insertRec(m, <<p, IF key < m.heap[p].key THEN "left" ELSE "right">>,
                         key, fresh, d - 1)
        q == Get(sub.m, r)
    IN IF sub.m.st # "ok" \/ sub.oom \/ ~sub.ret THEN sub
       ELSE IF ~CanDeref(q) THEN [m |-> Crash(sub.m), ret |-> FALSE, oom |-> FALSE]
       ELSE [m |-> [sub.m EXCEPT !.heap[q].nbElements = Inc(@)],
             ret |-> TRUE, oom |-> FALSE]
  ELSE [m |-> m, ret |-> FALSE, oom |-> FALSE]

\* ------------------------------------------------------------ deleteMin
\* The while loop of removeMinAndReturnIt: cur walks down the left members,
\* decrementing nbElements, until cur->left->left is null.  The links do not
\* change during the walk, so a walk longer than the number of blocks never ends.
RECURSIVE removeMinLoop(_, _, _)
removeMinLoop(m, cur, n) ==
  LET l == m.heap[cur].left IN
  IF ~CanDeref(l) THEN [m |-> Crash(m), cur |-> cur]
  ELSE IF m.heap[l].left = NULL THEN [m |-> m, cur |-> cur]
  ELSE IF n = 0 THEN [m |-> Hang(m), cur |-> cur]
  ELSE removeMinLoop([m EXCEPT !.heap[l].nbElements = Dec(@)], l, n - 1)

\* static Node* removeMinAndReturnIt(Node* leaf)
removeMinAndReturnIt(m, leaf) ==
  IF leaf = NULL THEN [m |-> m, ret |-> NULL, threw |-> TRUE]
  ELSE IF ~CanDeref(leaf) THEN [m |-> Crash(m), ret |-> NULL, threw |-> FALSE]
  ELSE
    LET m1 == [m EXCEPT !.heap[leaf].nbElements = Dec(@)] IN
    IF m1.heap[leaf].left = NULL
    THEN [m |-> m1, ret |-> m1.heap[leaf].right, threw |-> FALSE]
    ELSE
      LET w == removeMinLoop(m1, leaf, MaxNodes)
          cur == w.cur
          cur_left == w.m.heap[cur].left
      IN IF w.m.st # "ok" THEN [m |-> w.m, ret |-> NULL, threw |-> FALSE]
         ELSE [m |-> [w.m EXCEPT !.heap[cur].left = w.m.heap[cur_left].right],
               ret |-> cur_left, threw |-> FALSE]

\* void deleteMin(): delete removeMinAndReturnIt(_root);
deleteMin(m, c) ==
  LET r == removeMinAndReturnIt(m, m.root) IN
  IF r.threw \/ r.m.st # "ok" THEN r
  ELSE [m |-> Delete(r.m, r.ret, c), ret |-> r.ret, threw |-> FALSE]

\* -------------------------------------------------------- deleteElement
\* The branch of deleteElement taken at the block whose key equals key.
\* r is read again through the slot at every r->..., as the reference is.
deleteFound(m, r, c) ==
  LET p == Get(m, r) IN
  IF m.heap[p].right = NULL THEN
    \* delete r; r = r->left;  (the read follows the delete)
    LET m1 == Delete(m, p, c)
        q == Get(m1, r)
    IN IF m1.st # "ok" THEN m1
       ELSE IF ~CanDeref(q) THEN Crash(m1)
       ELSE Set(Touch(m1, q), r, m1.heap[q].left)
  ELSE IF m.heap[p].left = NULL THEN
    \* delete r; r = r->right;
    LET m1 == Delete(m, p, c)
        q == Get(m1, r)
    IN IF m1.st # "ok" THEN m1
       ELSE IF ~CanDeref(q) THEN Crash(m1)
       ELSE Set(Touch(m1, q), r, m1.heap[q].right)
  ELSE
    \* Hibbard: tmp = r; r = removeMinAndReturnIt(r->right); ...
    LET tmp == p
        rm == removeMinAndReturnIt(m, m.heap[p].right)
        m1 == Set(rm.m, r, rm.ret)
        q1 == Get(m1, r)
    IN IF rm.m.st # "ok" THEN rm.m
       ELSE IF ~CanDeref(q1) THEN Crash(m1)
       ELSE
         LET m2 == [m1 EXCEPT !.heap[q1].nbElements = Dec(m1.heap[tmp].nbElements)]
             q2 == Get(m2, r)
         IN IF ~CanDeref(q2) THEN Crash(m2)
            ELSE
              LET m3 == [m2 EXCEPT !.heap[q2].left = m2.heap[tmp].left]
                  q3 == Get(m3, r)
              IN IF ~CanDeref(q3) THEN Crash(m3)
                 ELSE Delete([m3 EXCEPT !.heap[q3].right = m3.heap[tmp].right], tmp, c)

\* static bool deleteElement(Node*& r, const_reference key) noexcept
RECURSIVE deleteElementRec(_, _, _, _, _)
deleteElementRec(m, r, key, c, d) ==
  LET p == Get(m, r) IN
  IF d = 0 THEN [m |-> Hang(m), ret |-> FALSE]
  ELSE IF p = NULL THEN [m |-> m, ret |-> FALSE]
  ELSE IF ~CanDeref(p) THEN [m |-> Crash(m), ret |-> FALSE]
  ELSE IF key < m.heap[p].key \/ key > m.heap[p].key THEN
    LET sub == deleteElementRec(m, <<p, IF key < m.heap[p].key THEN "left" ELSE "right">>,
                                key, c, d - 1)
        q == Get(sub.m, r)
    IN IF sub.m.st # "ok" \/ ~sub.ret THEN sub
       ELSE IF ~CanDeref(q) THEN [m |-> Crash(sub.m), ret |-> FALSE]
       ELSE [m |-> [sub.m EXCEPT !.heap[q].nbElements = Dec(@)], ret |-> TRUE]
  ELSE [m |-> deleteFound(m, r, c), ret |-> TRUE]

\* -------------------------------------------------------------- balance
\* static void linearize(Node* tree, Node*& list, size_t& cnt) noexcept
RECURSIVE linearizeRec(_, _, _, _, _)
linearizeRec(m, tree, list, cnt, d) ==
  IF d = 0 THEN [m |-> Hang(m), list |-> list, cnt |-> cnt]
  ELSE IF tree = NULL THEN [m |-> m, list |-> list, cnt |-> cnt]
  ELSE IF ~CanDeref(tree) THEN [m |-> Crash(m), list |-> list, cnt |-> cnt]
  ELSE
    LET a == linearizeRec(m, m.heap[tree].right, list, cnt, d - 1)
        cnt1 == Inc(a.cnt)
        m1 == [a.m EXCEPT !.heap[tree].right = a.list,
                          !.heap[tree].nbElements = cnt1]
        b == linearizeRec(m1, m1.heap[tree].left, tree, cnt1, d - 1)
    IN IF a.m.st # "ok" THEN a
       ELSE IF b.m.st # "ok" THEN b
       ELSE [m |-> [b.m EXCEPT !.heap[tree].left = NULL], list |-> b.list, cnt |-> b.cnt]

\* static void arborize(Node*& tree, Node*& list, size_t cnt) noexcept
\* tree is the root member or a local of the caller: the value is returned.
RECURSIVE arborize(_, _, _)
arborize(m, list, cnt) ==
  IF cnt > 0 THEN
    LET cntL == (cnt - 1) \div 2
        cntR == cnt - cntL - 1
        l == arborize(m, list, cntL)
        tree == l.list
    IN IF l.m.st # "ok" THEN l
       ELSE IF ~CanDeref(tree) THEN [m |-> Crash(l.m), tree |-> NULL, list |-> l.list]
       ELSE
         LET r == arborize(l.m, l.m.heap[tree].right, cntR) IN
         IF r.m.st # "ok" THEN r
         ELSE [m |-> [r.m EXCEPT !.heap[tree].nbElements = (cntL + cntR + 1) % SizeMod,
                                 !.heap[tree].right = r.tree,
                                 !.heap[tree].left = l.tree],
               tree |-> tree, list |-> r.list]
  ELSE [m |-> m, tree |-> NULL, list |-> list]

\* void linearize() noexcept
linearize(m) ==
  LET a == linearizeRec(m, m.root, NULL, 0, StackDepth) IN
  IF a.m.st # "ok" THEN a.m ELSE [a.m EXCEPT !.root = a.list]

\* void balance() noexcept
balance(m) ==
  LET a == linearizeRec(m, m.root, NULL, 0, StackDepth)
      b == arborize(a.m, a.list, a.cnt)
  IN IF a.m.st # "ok" THEN a.m
     ELSE IF b.m.st # "ok" THEN b.m
     ELSE [b.m EXCEPT !.root = b.tree]

\* ------------------------------------------------- copies, destruction
\* static void deleteSubTree(Node* r) noexcept: left subtree, right subtree,
\* then  delete r; r->nbElements--;  (the decrement follows the delete).
RECURSIVE deleteSubTree(_, _, _, _)
deleteSubTree(m, r, c, d) ==
  IF d = 0 THEN Hang(m)
  ELSE IF r = NULL THEN m
  ELSE IF ~CanDeref(r) THEN Crash(m)
  ELSE
    LET a == deleteSubTree(m, m.heap[r].left, c, d - 1)
        b == deleteSubTree(a, a.heap[r].right, c, d - 1)
        x == Delete(b, r, c)
    IN IF a.st # "ok" THEN a
       ELSE IF b.st # "ok" THEN b
       ELSE IF x.st # "ok" THEN x
       ELSE [Touch(x, r) EXCEPT !.heap[r].nbElements = Dec(@)]

\* operator new during a copy: the lowest block among those nothing refers
\* to, or (reuse) among the deleted blocks a dangling pointer still refers
\* to; NULL when no block is left.
NewBlock(m, reuse) ==
  LET dangling == {i \in Reach(m) : ~m.heap[i].live}
      unref == Unreferenced(m)
      pool == IF reuse THEN (IF dangling # {} THEN dangling ELSE unref)
              ELSE (IF unref # {} THEN unref ELSE dangling)
  IN IF pool = {} THEN NULL ELSE CHOOSE i \in pool : \A j \in pool : i <= j

\* void copyNodes(Node*& r, Node* nodeToCopy).  r0 is what r holds on entry;
\* the result's r is what it holds on return (r is written only when
\* nodeToCopy is not null).  oom: no block left, outside the model's bounds.
\* The steps of the body, in order:
\*   r = new Node(nodeToCopy->key); r->nbElements = nodeToCopy->nbElements;
copyNode(m, fresh, nodeToCopy) ==
  LET m1 == [m EXCEPT !.heap[fresh] = Node(m.heap[nodeToCopy].key)]
  IN [m1 EXCEPT !.heap[fresh].nbElements = m1.heap[nodeToCopy].nbElements]

RECURSIVE copyNodes(_, _, _, _, _)
\*   the return from copyNodes(r->right, nodeToCopy->right)
copyRightDone(rr, fresh) ==
  IF rr.m.st # "ok" \/ rr.oom THEN [rr EXCEPT !.r = fresh]
  ELSE [m |-> [rr.m EXCEPT !.heap[fresh].right = rr.r], r |-> fresh, oom |-> FALSE]

\*   copyNodes(r->right, nodeToCopy->right);
copyRight(m, fresh, nodeToCopy, reuse, d) ==
  copyRightDone(copyNodes(m, m.heap[fresh].right, m.heap[nodeToCopy].right, reuse, d - 1),
                fresh)

\*   the return from copyNodes(r->left, nodeToCopy->left)
copyLeftDone(l, fresh, nodeToCopy, reuse, d) ==
  IF l.m.st # "ok" \/ l.oom THEN [l EXCEPT !.r = fresh]
  ELSE copyRight([l.m EXCEPT !.heap[fresh].left = l.r], fresh, nodeToCopy, reuse, d)

\*   copyNodes(r->left, nodeToCopy->left);
copyLeft(m, fresh, nodeToCopy, reuse, d) ==
  copyLeftDone(copyNodes(m, m.heap[fresh].left, m.heap[nodeToCopy].left, reuse, d - 1),
               fresh, nodeToCopy, reuse, d)

copyNodes(m, r0, nodeToCopy, reuse, d) ==
  IF d = 0 THEN [m |-> Hang(m), r |-> r0, oom |-> FALSE]
  ELSE IF nodeToCopy = NULL THEN [m |-> m, r |-> r0, oom |-> FALSE]
  ELSE IF ~CanDeref(nodeToCopy) THEN [m |-> Crash(m), r |-> r0, oom |-> FALSE]
  ELSE IF NewBlock(m, reuse) = NULL THEN [m |-> m, r |-> r0, oom |-> TRUE]
  ELSE copyLeft(copyNode(m, NewBlock(m, reuse), nodeToCopy),
                NewBlock(m, reuse), nodeToCopy, reuse, d)

\* BinarySearchTree(BinarySearchTree& other): the new object is the second
\* tree, built from the first.
copyConstruct(m, reuse) ==
  LET res == copyNodes([m EXCEPT !.other = NULL], NULL, m.root, reuse, StackDepth)
  IN [m |-> [res.m EXCEPT !.other = res.r], oom |-> res.oom]

\* BinarySearchTree& operator=(const BinarySearchTree& other): the second
\* tree is assigned the first.  tmp0 is what the local tmp, which has no
\* initializer, holds before copyNodes(tmp, other._root).
copyAssign(m, tmp0, reuse, c) ==
  LET res == copyNodes(m, tmp0, m.root, reuse, StackDepth)
      del == deleteSubTree(res.m, res.m.other, c, StackDepth)
  IN IF res.m.st # "ok" \/ res.oom THEN [m |-> res.m, oom |-> res.oom]
     ELSE IF del.st # "ok" THEN [m |-> del, oom |-> FALSE]
     ELSE [m |-> [del EXCEPT !.other = res.r], oom |-> FALSE]

\* -------------------------------------------------------------- queries
\* static bool contains(Node* r, const_reference key) noexcept: the set of
\* results a call can produce.  The two recursive branches make the call and
\* then flow off the end of the function without a return statement: the
\* caller reads an indeterminate value, or the build traps there.
RECURSIVE contains(_, _, _, _)
contains(m, r, key, d) ==
  IF d = 0 THEN {"hang"}
  ELSE IF r = NULL THEN {"false"}
  ELSE IF ~CanDeref(r) THEN {"crash"}
  ELSE IF key < m.heap[r].key \/ key > m.heap[r].key THEN
    LET sub == contains(m, IF key < m.heap[r].key THEN m.heap[r].left ELSE m.heap[r].right,
                        key, d - 1)
    IN IF sub \in {{"crash"}, {"hang"}} THEN sub ELSE {"true", "false", "crash"}
  ELSE {"true"}

\* static size_t size(Node* r) noexcept
sizeOf(m, r) == IF r = NULL THEN 0 ELSE m.heap[r].nbElements

\* static const_reference nth_element(Node* r, size_t n) noexcept
RECURSIVE nth_elementRec(_, _, _, _)
nth_elementRec(m, r, n, d) ==
  IF d = 0 THEN [kind |-> "crash", val |-> 0]
  ELSE IF r = NULL THEN [kind |-> "dangling", val |-> 0]    \* return -1;
  ELSE IF ~CanDeref(r) \/ m.heap[r].left = WILD THEN [kind |-> "crash", val |-> 0]
  ELSE
    LET s == sizeOf(m, m.heap[r].left) IN
    IF n < s THEN nth_elementRec(m, m.heap[r].left, n, d - 1)
    ELSE IF n > s THEN nth_elementRec(m, m.heap[r].right, n - s - 1, d - 1)
    ELSE [kind |-> "key", val |-> m.heap[r].key]

\* const_reference nth_element(size_t n) const
nth_element(m, n) ==
  IF m.root = WILD THEN [kind |-> "crash", val |-> 0]
  ELSE IF n > sizeOf(m, m.root) THEN [kind |-> "logic_error", val |-> 0]
  ELSE nth_elementRec(m, m.root, n, StackDepth)

\* static size_t rank(Node* r, const_reference key) noexcept
RECURSIVE rankRec(_, _, _, _)
rankRec(m, r, key, d) ==
  IF d = 0 THEN [kind |-> "hang", val |-> 0]
  ELSE IF r = NULL THEN [kind |-> "rank", val |-> NotFound]
  ELSE IF ~CanDeref(r) THEN [kind |-> "crash", val |-> 0]
  ELSE IF key < m.heap[r].key THEN
    rankRec(m, m.heap[r].left, key, d - 1)      \* s, or -1 by the final return
  ELSE IF key > m.heap[r].key THEN
    LET s == rankRec(m, m.heap[r].right, key, d - 1) IN
    IF s.kind \in {"crash", "hang"} \/ s.val = NotFound THEN s
    ELSE IF m.heap[r].left = WILD THEN [kind |-> "crash", val |-> 0]
    ELSE [kind |-> "rank", val |-> (s.val + sizeOf(m, m.heap[r].left) + 1) % SizeMod]
  ELSE IF m.heap[r].left = WILD THEN [kind |-> "crash", val |-> 0]
  ELSE [kind |-> "rank", val |-> sizeOf(m, m.heap[r].left)]

\* size_t rank(const_reference key) const noexcept
rank(m, key) == rankRec(m, m.root, key, StackDepth)

\* size_t size() const noexcept: return _root->nbElements;
size(m) ==
  IF ~CanDeref(m.root) THEN [kind |-> "crash", val |-> 0]
  ELSE [kind |-> "size", val |-> m.heap[m.root].nbElements]

\* The loop of min(): follow left members to the first block without one.
RECURSIVE minLoop(_, _, _)
minLoop(m, tmpNode, n) ==
  IF ~CanDeref(tmpNode) THEN [kind |-> "crash", val |-> 0]
  ELSE IF m.heap[tmpNode].left = NULL THEN [kind |-> "key", val |-> m.heap[tmpNode].key]
  ELSE IF n = 0 THEN [kind |-> "hang", val |-> 0]
  ELSE minLoop(m, m.heap[tmpNode].left, n - 1)

\* min() without its test for the empty tree.
minUnchecked(m) == minLoop(m, m.root, MaxNodes)

\* const_reference min() const
min(m) ==
  IF m.root = NULL THEN [kind |-> "logic_error", val |-> 0]
  ELSE minLoop(m, m.root, MaxNodes)

\* -------------------------------------------------------------- actions
\* What the last call returned: kind is "void", "true", "false", "key",
\* "rank", "size", "logic_error" (thrown), "dangling" (a reference to a
\* destroyed temporary), or "crashed" / "hung" when the call never returned.
\* For insert, which returns void, kind is what insert(_root, key) reported
\* to it.
Ret(op, arg, kind, val) ==
  [op |-> op, arg |-> arg, kind |-> kind, val |-> val, uaf |-> FALSE]

Init ==
  /\ root = NULL
  /\ other = NULL
  /\ heap = [i \in NodeIds |-> Blank]
  /\ status = "ok"
  /\ ret = Ret("init", 0, "void", 0)
  /\ removals = 0
  /\ copies = 0

\* The call never returns: the process is gone, and its memory with it.
Stop(st, r) ==
  /\ root' = NULL
  /\ other' = NULL
  /\ heap' = [i \in NodeIds |-> Blank]
  /\ status' = st
  /\ ret' = [r EXCEPT !.kind = st, !.val = 0]

\* The call returned in state m with result r, or ended the process.
Finish(m, r) ==
  IF m.st = "ok"
  THEN LET c == Canon(m) IN
       /\ root' = c.root /\ other' = c.other /\ heap' = c.heap
       /\ status' = "ok" /\ ret' = [r EXCEPT !.uaf = c.uaf]
  ELSE Stop(m.st, r)

Query(op, arg, res) ==
  IF res.kind = "crash" THEN Stop("crashed", Ret(op, arg, "", 0))
  ELSE IF res.kind = "hang" THEN Stop("hung", Ret(op, arg, "", 0))
  ELSE UNCHANGED <<root, other, heap, status>> /\ ret' = Ret(op, arg, res.kind, res.val)

\* void insert(const_reference key) { insert(_root, key); }
Insert(k) ==
  /\ status = "ok"
  /\ \E fresh \in (IF AllocChoices(Mem, k) = {} THEN {NULL} ELSE AllocChoices(Mem, k)) :
       LET res == insertRec(Mem, RootSlot, k, fresh, StackDepth) IN
       ~res.oom /\ Finish(res.m, Ret("insert", k, IF res.ret THEN "true" ELSE "false", 0))
  /\ UNCHANGED <<removals, copies>>

\* bool deleteElement(const_reference key) noexcept
DeleteElement(k) ==
  /\ status = "ok"
  /\ removals < MaxRemovals
  /\ removals' = removals + 1
  /\ UNCHANGED copies
  /\ \E c \in ScribbleChoices :
       LET res == deleteElementRec(Mem, RootSlot, k, c, StackDepth) IN
       Finish(res.m, Ret("deleteElement", k, IF res.ret THEN "true" ELSE "false", 0))

DeleteMin ==
  /\ status = "ok"
  /\ removals < MaxRemovals
  /\ removals' = removals + 1
  /\ UNCHANGED copies
  /\ \E c \in ScribbleChoices :
       LET res == deleteMin(Mem, c) IN
       Finish(res.m, Ret("deleteMin", 0, IF res.threw THEN "logic_error" ELSE "void", 0))

Balance ==
  /\ status = "ok"
  /\ Finish(balance(Mem), Ret("balance", 0, "void", 0))
  /\ UNCHANGED <<removals, copies>>

\* void linearize() noexcept.  The result recorded is the final value of
\* the local cnt.
Linearize ==
  /\ status = "ok"
  /\ LET a == linearizeRec(Mem, root, NULL, 0, StackDepth) IN
       Finish(linearize(Mem), Ret("linearize", 0, "void", a.cnt))
  /\ UNCHANGED <<removals, copies>>

\* BinarySearchTree b(a);  with a the first tree and b a new second tree.
CopyConstruct ==
  /\ status = "ok"
  /\ other = NULL
  /\ copies < MaxCopies
  /\ copies' = copies + 1
  /\ \E reuse \in BOOLEAN :
       LET res == copyConstruct(Mem, reuse) IN
       ~res.oom /\ Finish(res.m, Ret("copy", 0, "void", 0))
  /\ UNCHANGED removals

\* b = a;  The local tmp of operator= has no initializer: when a is empty
\* it is read as it is, holding a null pointer, the address of no node, or
\* the address of a node left there by an earlier call (b's root here).
CopyAssign ==
  /\ status = "ok"
  /\ copies < MaxCopies
  /\ copies' = copies + 1
  /\ \E tmp0 \in {NULL, WILD, other}, reuse \in BOOLEAN, c \in ScribbleChoices :
       LET res == copyAssign(Mem, tmp0, reuse, c) IN
       ~res.oom /\ Finish(res.m, Ret("assign", 0, "void", 0))
  /\ UNCHANGED removals

\* bool contains(const_reference key) const noexcept
Contains(k) ==
  /\ status = "ok"
  /\ \E o \in contains(Mem, root, k, StackDepth) :
       Query("contains", k, [kind |-> o, val |-> 0])
  /\ UNCHANGED <<removals, copies>>

Rank(k) == status = "ok" /\ Query("rank", k, rank(Mem, k)) /\ UNCHANGED <<removals, copies>>

NthElement(n) == status = "ok" /\ Query("nth_element", n, nth_element(Mem, n)) /\ UNCHANGED <<removals, copies>>

Min == status = "ok" /\ Query("min", 0, min(Mem)) /\ UNCHANGED <<removals, copies>>

Size == status = "ok" /\ Query("size", 0, size(Mem)) /\ UNCHANGED <<removals, copies>>

Next ==
  \/ \E k \in Keys : Insert(k)
  \/ \E k \in Keys : DeleteElement(k)
  \/ DeleteMin
  \/ Balance
  \/ Linearize
  \/ \E k \in Keys : Contains(k)
  \/ \E k \in Keys : Rank(k)
  \/ \E n \in 0..MaxNodes : NthElement(n)
  \/ Min
  \/ Size

Spec == Init /\ [][Next]_vars

Mutate ==
  \/ \E k \in Keys : Insert(k)
  \/ \E k \in Keys : DeleteElement(k)
  \/ DeleteMin
  \/ Balance
  \/ Linearize
SpecM == Init /\ [][Mutate]_vars

\* Two tree objects: calls that change the first, and the copies of it into
\* the second.
NextC ==
  \/ \E k \in Keys : Insert(k)
  \/ \E k \in Keys : DeleteElement(k)
  \/ Balance
  \/ CopyConstruct
  \/ CopyAssign
SpecC == Init /\ [][NextC]_vars

\* --------------------------------------------------------------- traversal
\* void parcoursSymetrique(Node* leaf, Fn f): the keys handed to f, in order
\* (ok = FALSE: the walk ran off the call stack or through a wild pointer).
RECURSIVE parcoursSymetrique(_, _, _)
parcoursSymetrique(m, leaf, d) ==
  IF d = 0 \/ ~CanDeref(leaf) THEN [ok |-> FALSE, keys |-> <<>>]
  ELSE
    LET l == IF m.heap[leaf].left # NULL
             THEN parcoursSymetrique(m, m.heap[leaf].left, d - 1)
             ELSE [ok |-> TRUE, keys |-> <<>>]
        r == IF m.heap[leaf].right # NULL
             THEN parcoursSymetrique(m, m.heap[leaf].right, d - 1)
             ELSE [ok |-> TRUE, keys |-> <<>>]
    IN [ok |-> l.ok /\ r.ok, keys |-> l.keys \o <<m.heap[leaf].key>> \o r.keys]

\* void visitSym(Fn f)
visitSym(m) ==
  IF m.root # NULL THEN parcoursSymetrique(m, m.root, StackDepth)
  ELSE [ok |-> TRUE, keys |-> <<>>]

\* ------------------------------------------------------------------ claims
\* The nodes of the tree: the live blocks the root leads to.
Nodes(m) == {i \in Reach(m) : m.heap[i].live}
\* The keys stored in the tree.
StoredKeys(m) == {m.heap[i].key : i \in Nodes(m)}
SubSize(m, p) == IF p \in NodeIds THEN m.heap[p].nbElements ELSE 0
Ascending(q) == \A i \in 1..(Len(q) - 1) : q[i] < q[i + 1]

\* Every block the allocator took back still holds what was written to it
\* last: no pointer of the tree is a bit pattern read from overwritten
\* memory.  The claims are stated for these states, the outcome of undefined
\* behaviour most favourable to the code.
Benign(m) ==
  /\ m.root # WILD
  /\ \A i \in Reach(m) : m.heap[i].left # WILD /\ m.heap[i].right # WILD

\* A valid tree: only live nodes, every nbElements right, keys in order.
WellFormed(m) ==
  /\ Benign(m)
  /\ Reach(m) = Nodes(m)
  /\ visitSym(m).ok /\ Ascending(visitSym(m).keys)
  /\ \A i \in Nodes(m) :
       m.heap[i].nbElements = 1 + SubSize(m, m.heap[i].left) + SubSize(m, m.heap[i].right)

\* A step that is the call op(arg).
Called(op, arg) == ret' # ret /\ ret'.op = op /\ ret'.arg = arg
Removed(op, arg) == removals' = removals + 1 /\ ret'.op = op /\ ret'.arg = arg
After == [root |-> root', other |-> other', heap |-> heap', st |-> status', uaf |-> FALSE]

\* C1: after any sequence of insert, deleteElement, deleteMin and balance
\* calls, every node reachable from the root has
\* nbElements = 1 + size(left) + size(right), a missing child counting 0.
C1_SizeInvariant ==
  (status = "ok" /\ Benign(Mem)) =>
    \A i \in Nodes(Mem) :
      heap[i].nbElements = 1 + SubSize(Mem, heap[i].left) + SubSize(Mem, heap[i].right)

\* C2: after any sequence of insert, deleteElement, deleteMin and balance
\* calls, the in-order traversal yields the keys in strictly ascending order:
\* left-subtree keys are smaller, right-subtree keys greater, no key twice.
\* Stated for one call: made on a valid tree, it leaves such a tree.
InOrderAscending(m) ==
  /\ visitSym(m).ok
  /\ Ascending(visitSym(m).keys)
  /\ \A i \in Nodes(m) :
       /\ \A j \in ReachFrom(m.heap, {}, {m.heap[i].left} \cap NodeIds) :
            m.heap[j].key < m.heap[i].key
       /\ \A j \in ReachFrom(m.heap, {}, {m.heap[i].right} \cap NodeIds) :
            m.heap[j].key > m.heap[i].key
C2_InOrderAscending ==
  [][(status = "ok" /\ WellFormed(Mem) /\ status' = "ok" /\ Benign(After))
     => InOrderAscending(After)]_vars

\* C3: after any sequence of insert, deleteElement, deleteMin and balance
\* calls that leaves a non-empty tree, the root's nbElements (what size()
\* returns) is the number of keys currently stored.
C3_RootSizeIsKeyCount ==
  (status = "ok" /\ Benign(Mem) /\ root \in NodeIds) =>
    heap[root].nbElements = Cardinality(StoredKeys(Mem))

\* C4: deleteElement(k) of a stored key k returns true; afterwards k is no
\* longer stored (contains(k) is false), the size is one less, and every
\* other key is still stored.
C4_DeleteStoredKey ==
  [][\A k \in Keys :
       (status = "ok" /\ WellFormed(Mem) /\ k \in StoredKeys(Mem) /\ Removed("deleteElement", k)
          /\ (status' = "ok" => Benign(After)))
       => /\ status' = "ok"
          /\ ret'.kind = "true"
          /\ StoredKeys(After) = StoredKeys(Mem) \ {k}
          /\ SubSize(After, root') = SubSize(Mem, root) - 1]_vars

\* C5: deleteElement(k) of a key k that is not stored returns false and
\* leaves the tree unchanged: same nodes, same links, same nbElements.
C5_DeleteAbsentKey ==
  [][\A k \in Keys :
       (status = "ok" /\ Benign(Mem) /\ k \notin StoredKeys(Mem) /\ Removed("deleteElement", k)
          /\ (status' = "ok" => Benign(After)))
       => /\ status' = "ok"
          /\ ret'.kind = "false"
          /\ root' = root /\ heap' = heap]_vars

\* C6: on a non-empty tree deleteMin() removes exactly the node holding the
\* minimum key: that key is no longer stored, all others are, and the key
\* count is one less.
C6_DeleteMinRemovesMin ==
  [][(status = "ok" /\ WellFormed(Mem) /\ StoredKeys(Mem) # {} /\ Removed("deleteMin", 0)
        /\ (status' = "ok" => Benign(After)))
     => /\ status' = "ok"
        /\ \E k \in StoredKeys(Mem) :
             /\ \A j \in StoredKeys(Mem) : k <= j
             /\ StoredKeys(After) = StoredKeys(Mem) \ {k}
        /\ Cardinality(Nodes(After)) = Cardinality(Nodes(Mem)) - 1]_vars

\* C7: contains(k) returns true exactly when k is stored in the tree, at
\* any depth.
C7_ContainsIffStored ==
  [][\A k \in Keys :
       (status = "ok" /\ WellFormed(Mem) /\ Called("contains", k) /\ status' = "ok")
       => ((ret'.kind = "true") <=> (k \in StoredKeys(Mem)))]_vars

\* C8: insert(k) of a key k already stored reports false and changes
\* nothing: no node is created, every node keeps its links and nbElements.
C8_InsertStoredKey ==
  [][\A k \in Keys :
       (status = "ok" /\ Benign(Mem) /\ k \in StoredKeys(Mem) /\ Called("insert", k))
       => /\ status' = "ok"
          /\ ret'.kind = "false"
          /\ root' = root /\ heap' = heap]_vars

\* C9: rank(nth_element(n)) = n for every n < size(), and
\* nth_element(rank(k)) = k for every stored key k.
C9_RankSelectInverse ==
  (status = "ok" /\ Benign(Mem)) =>
    /\ \A n \in 0..(SubSize(Mem, root) - 1) :
         /\ nth_element(Mem, n).kind = "key"
         /\ rank(Mem, nth_element(Mem, n).val) = [kind |-> "rank", val |-> n]
    /\ \A k \in StoredKeys(Mem) :
         /\ rank(Mem, k).kind = "rank"
         /\ nth_element(Mem, rank(Mem, k).val) = [kind |-> "key", val |-> k]

\* C10: nth_element(n) with n >= size, n = size included, fails with
\* logic_error and returns no key.
C10_NthElementOutOfRange ==
  [][\A n \in 0..MaxNodes :
       (status = "ok" /\ WellFormed(Mem) /\ n >= SubSize(Mem, root) /\ Called("nth_element", n))
       => ret'.kind = "logic_error"]_vars

\* The blocks of the tree whose root member holds p.
TreeOf(m, p) == ReachFrom(m.heap, {}, {p} \cap NodeIds)
\* The number of links that lead to block i: the root member and the left
\* and right members of the blocks of the tree.
Incoming(m, i) ==
  (IF m.root = i THEN 1 ELSE 0)
  + Cardinality({j \in TreeOf(m, m.root) : m.heap[j].left = i})
  + Cardinality({j \in TreeOf(m, m.root) : m.heap[j].right = i})
\* No cycle and no aliasing: exactly one link leads to every block.
IsTree(m) == \A i \in TreeOf(m, m.root) : Incoming(m, i) = 1
\* The blocks that hold a node: created and not destroyed.
Live(m) == {i \in NodeIds : m.heap[i].live}

\* C11: balance() leaves the in-order key sequence unchanged and reuses
\* exactly the same nodes: each node of the tree before the call is in the
\* tree once after it, and no node is created or destroyed.
C11_BalanceKeepsNodes ==
  [][(status = "ok" /\ Benign(Mem) /\ Called("balance", 0))
     => /\ status' = "ok"
        /\ visitSym(After).ok
        /\ visitSym(After).keys = visitSym(Mem).keys
        /\ Nodes(After) = Nodes(Mem)
        /\ IsTree(After)
        /\ Live(After) = Live(Mem)]_vars

\* The number of nodes on the longest path from p down to a leaf.
RECURSIVE Height(_, _, _)
Height(m, p, d) ==
  IF p \notin NodeIds \/ d = 0 THEN 0
  ELSE LET l == Height(m, m.heap[p].left, d - 1)
           r == Height(m, m.heap[p].right, d - 1)
       IN 1 + (IF l > r THEN l ELSE r)
\* ceil(log2(n)) for n >= 1.
CeilLog2(n) == CHOOSE h \in 0..n : 2^h >= n /\ (h = 0 \/ 2^(h - 1) < n)

\* C12: whatever the shape of the tree before the call, after balance() the
\* height of a tree with n keys is ceil(log2(n + 1)).
C12_BalancedHeight ==
  [][(status = "ok" /\ Benign(Mem) /\ Called("balance", 0))
     => /\ status' = "ok"
        /\ Height(After, root', StackDepth)
             = CeilLog2(Cardinality(StoredKeys(Mem)) + 1)]_vars

\* C13: on an empty tree min() and deleteMin() each fail with
\* std::logic_error, and the tree is still empty afterwards.
C13_EmptyTreeErrors ==
  [][(status = "ok" /\ root = NULL /\ (Called("min", 0) \/ Removed("deleteMin", 0)))
     => /\ status' = "ok"
        /\ ret'.kind = "logic_error"
        /\ root' = NULL
        /\ heap' = heap]_vars
\* deleteMin() has just been refused on the empty tree.
C13_Witness ==
  status = "ok" /\ root = NULL /\ ret.op = "deleteMin" /\ ret.kind = "logic_error"

\* C14: rank(k) returns the number of stored keys strictly smaller than k
\* when k is stored and size_t(-1) when it is not, and never modifies the
\* tree.
C14_RankCountsSmaller ==
  [][\A k \in Keys :
       (status = "ok" /\ Benign(Mem) /\ Called("rank", k))
       => /\ status' = "ok"
          /\ ret'.kind = "rank"
          /\ ret'.val = (IF k \in StoredKeys(Mem)
                         THEN Cardinality({j \in StoredKeys(Mem) : j < k})
                         ELSE NotFound)
          /\ root' = root /\ heap' = heap]_vars

\* The in-order sequence of <<key, nbElements>> of the tree under p.
RECURSIVE InOrderSizes(_, _, _)
InOrderSizes(m, p, d) ==
  IF p \notin NodeIds \/ d = 0 THEN <<>>
  ELSE InOrderSizes(m, m.heap[p].left, d - 1)
       \o <<(<<m.heap[p].key, m.heap[p].nbElements>>)>>
       \o InOrderSizes(m, m.heap[p].right, d - 1)

\* C15: a copy, by copy construction or by copy assignment, of any source
\* tree (empty or not) gives the destination the same in-order keys and
\* nbElements as the source and shares no node with it; a later insert,
\* deleteElement or balance on the source leaves the copy unchanged.
C15_CopyIsIndependent ==
  [][(status = "ok" /\ Benign(Mem) /\ other # WILD)
     => /\ (Called("copy", 0) \/ Called("assign", 0))
             => /\ status' = "ok"
                /\ other' # WILD
                /\ InOrderSizes(After, other', StackDepth) = InOrderSizes(Mem, root, StackDepth)
                /\ TreeOf(After, other') \cap TreeOf(After, root') = {}
                /\ root' = root
                /\ \A i \in TreeOf(Mem, root) : heap'[i] = heap[i]
        /\ (ret' # ret /\ ret'.op \in {"insert", "deleteElement", "balance"} /\ status' = "ok")
             => /\ other' = other
                /\ \A i \in TreeOf(Mem, other) : heap'[i] = heap[i]]_vars

\* The node that holds key k, in a valid tree that stores k.
NodeOf(k) == CHOOSE i \in Nodes(Mem) : heap[i].key = k
\* The node with the smallest key of the subtree under p.
MinNode(p) ==
  CHOOSE i \in TreeOf(Mem, p) : \A j \in TreeOf(Mem, p) : heap[i].key <= heap[j].key
\* What the slot that leads to node n (the root member, or its parent's
\* left or right member) holds after the step.
SlotAfter(n) ==
  IF root = n THEN root'
  ELSE LET P == CHOOSE j \in Nodes(Mem) : heap[j].left = n \/ heap[j].right = n
       IN IF heap[P].left = n THEN heap'[P].left ELSE heap'[P].right

\* C16: when deleteElement(k) reaches a node D with key k and two children,
\* the slot that held D afterwards holds S, the node with the minimum key of
\* D's right subtree (D's right child itself when that has no left child);
\* S.left is D's former left subtree, S.right is D's former right subtree
\* with S removed from it, S.nbElements = D.nbElements - 1, and D is
\* destroyed.
C16_HibbardReplacement ==
  [][\A k \in Keys :
       (/\ status = "ok" /\ WellFormed(Mem) /\ k \in StoredKeys(Mem)
        /\ heap[NodeOf(k)].left # NULL /\ heap[NodeOf(k)].right # NULL
        /\ Removed("deleteElement", k))
       => LET D == NodeOf(k)
              R == heap[D].right
              S == MinNode(R)
          IN /\ status' = "ok"
             /\ SlotAfter(D) = S
             /\ heap'[S].left = heap[D].left
             /\ heap'[S].right = (IF S = R THEN heap[S].right ELSE R)
             /\ S # R => SlotAfter(S) = heap[S].right
             /\ heap'[S].nbElements = heap[D].nbElements - 1
             /\ Live(After) = Live(Mem) \ {D}]_vars

\* C17: after any sequence of insert, deleteElement, deleteMin, linearize
\* and balance calls the nodes reachable from the root form a tree: no
\* cycle, and no node linked twice.  Stated for one call: made on a valid
\* tree, it leaves a tree.
C17_NoCycleNoAliasing ==
  [][(status = "ok" /\ WellFormed(Mem) /\ status' = "ok" /\ Benign(After))
     => IsTree(After)]_vars

\* C18: after every completed insert, deleteElement, deleteMin or balance
\* call the nodes created and not destroyed are exactly the nodes reachable
\* from the root: no link leads to a destroyed node, no live node is
\* unreachable.
C18_LiveIsReachable ==
  (status = "ok" /\ Benign(Mem)) => Live(Mem) = Reach(Mem)

\* C19: no call reads or writes a field of a node after destroying that
\* node: the last completed call did not touch a block it had already
\* deleted.
C19_NoAccessAfterDestroy ==
  ~ret.uaf

\* The nodes met from p by following right links, in order.
RECURSIVE Chain(_, _, _)
Chain(m, p, d) ==
  IF d = 0 \/ p = NULL \/ ~CanDeref(p) THEN <<>>
  ELSE <<p>> \o Chain(m, m.heap[p].right, d - 1)

\* C20: linearize() on a tree of n nodes leaves the same nodes as a chain
\* linked through right in ascending key order, every left link null, the
\* last right link null; the counter has advanced by n and each node's
\* nbElements is its 1-based position counted from the tail of the chain.
C20_LinearizeChain ==
  [][(status = "ok" /\ Benign(Mem) /\ Called("linearize", 0)) =>
       LET ch == Chain(After, root', MaxNodes + 1)
           n == Cardinality(Nodes(Mem))
       IN /\ status' = "ok"
          /\ Len(ch) = n
          /\ {ch[i] : i \in 1..Len(ch)} = Nodes(Mem)
          /\ Live(After) = Live(Mem)
          /\ Ascending([i \in 1..Len(ch) |-> heap'[ch[i]].key])
          /\ \A i \in 1..Len(ch) :
               /\ heap'[ch[i]].left = NULL
               /\ heap'[ch[i]].key = heap[ch[i]].key
               /\ heap'[ch[i]].right = (IF i = Len(ch) THEN NULL ELSE ch[i + 1])
               /\ heap'[ch[i]].nbElements = n - i + 1
          /\ ret'.val = n]_vars

\* C21: every call of contains, min, rank, nth_element, insert,
\* deleteElement, deleteMin and balance made on a reachable tree comes to an
\* end (no walk goes on for ever), and so does an in-order traversal of any
\* reachable tree whose nodes are all live.
C21_CallsTerminate ==
  [][(status = "ok" /\ Benign(Mem)) =>
       /\ (ret'.op \in {"contains", "min", "rank", "nth_element", "insert",
                        "deleteElement", "deleteMin", "balance"}
             => status' # "hung")
       /\ (Reach(Mem) = Nodes(Mem) => visitSym(Mem).ok)]_vars

\* C22: size() returns on every reachable tree, and on the empty tree it
\* returns 0 and leaves the tree empty.
C22_SizeOfEmptyTree ==
  [][(status = "ok" /\ Benign(Mem) /\ Called("size", 0)) =>
       /\ status' = "ok" /\ ret'.kind = "size"
       /\ (root = NULL => ret'.val = 0 /\ root' = NULL /\ heap' = heap)]_vars

====
